---------------------------- MODULE Spec2Model ----------------------------
(***************************************************************************)
(* MyBuddy: the relational store (db.py SCHEMA), the Consistency Writer    *)
(* (_save_extractions), the Extraction Orchestrator (extract_from_note),   *)
(* the Pattern Extractor (_rule_based_extract) and the note / contact /    *)
(* action route handlers.                                                  *)
(*                                                                         *)
(* Strings that the code inspects character by character (descriptions,    *)
(* names, reminder messages) are sequences of one-character strings.       *)
(* A note's (title, content) pair is a key of TEXTS; the regular           *)
(* expressions of ai.py are not executed, a text carries the matches they  *)
(* produce on it (see Matches).  The due_date and timestamp columns carry  *)
(* no behaviour and are left out.                                          *)
(***************************************************************************)
EXTENDS Integers, Sequences, FiniteSets, TLC

VARIABLES
    db,         \* the SQLite store: tables and AUTOINCREMENT counters
    inflight,   \* requests whose first transaction committed, extraction pending
    extracted,  \* history: note id -> the extraction last persisted for it
    last,       \* history: the request that produced this state
    steps       \* the number of requests served so far

vars == <<db, inflight, extracted, last, steps>>

\* ------------------------------------------------------------------ bounds
MaxNotes == 2
MaxContacts == 3
MaxActions == 4
MaxReminders == 3
MaxInflight == 1
MaxSteps == 3
MaxConcSteps == 2
MaxWorkers == 2
MaxLines == 3

\* ------------------------------------------------------------- characters
LowerChar(c) ==
    CASE c = "S" -> "s"
      [] c = "J" -> "j"
      [] c = "M" -> "m"
      [] OTHER -> c

IsUpperChar(c) == c \in {"S", "J", "M"}

RECURSIVE Lower(_)
Lower(s) == IF s = <<>> THEN <<>> ELSE <<LowerChar(Head(s))>> \o Lower(Tail(s))

\* Python's `a in b` for strings: a is a contiguous part of b.
IsSubstring(a, b) ==
    \E i \in 0..(Len(b) - Len(a)) : SubSeq(b, i + 1, i + Len(a)) = a

\* str.rstrip(".,;!") ; the texts hold no leading or trailing blanks, so the
\* strip() calls around it change nothing.
RECURSIVE RStripPunct(_)
RStripPunct(s) ==
    IF s # <<>> /\ s[Len(s)] \in {".", ",", ";", "!"}
    THEN RStripPunct(SubSeq(s, 1, Len(s) - 1))
    ELSE s

\* dict.get(k, default)
Get(d, k, default) == IF k \in DOMAIN d THEN d[k] ELSE default

\* The words used by the texts and the extraction results.
Sam == <<"S", "a", "m">>
Jo == <<"J", "o">>
NoStr == <<>>

\* ------------------------------------------------------------------ store
EmptyDb ==
    [notes |-> {}, contacts |-> {}, action_items |-> {}, note_contacts |-> {},
     reminders |-> {},
     seq |-> [notes |-> 0, contacts |-> 0, action_items |-> 0, reminders |-> 0]]

\* A transaction in progress is the connection's view of the store and the
\* exception raised so far ("" while none; an sqlite3.IntegrityError by its
\* message).
Raise(st, e) == [st EXCEPT !.err = e]

NoteExists(d, nid) == \E n \in d.notes : n.id = nid
ContactExists(d, cid) == \E c \in d.contacts : c.id = cid

\* INSERT INTO notes (title, content)
InsertNote(d, text) ==
    LET nid == d.seq.notes + 1
    IN  [d EXCEPT !.notes = @ \cup {[id |-> nid, text |-> text]},
                  !.seq.notes = nid]

\* UPDATE notes SET title = ?, content = ? WHERE id = ?
UpdateNoteRow(d, nid, text) ==
    [d EXCEPT !.notes = {IF n.id = nid THEN [n EXCEPT !.text = text] ELSE n : n \in @}]

\* ActionFkOk with PRAGMA foreign_keys left off.
ActionFkOff(d, nid) == TRUE

\* action_items.note_id REFERENCES notes(id): checked when the row is inserted.
ActionFkOk(d, nid) == NoteExists(d, nid)

\* INSERT INTO action_items (note_id, description, due_date)
InsertActionItem(st, nid, description) ==
    IF ~ActionFkOk(st.db, nid) THEN Raise(st, "FOREIGN KEY constraint failed")
    ELSE LET aid == st.db.seq.action_items + 1
         IN  [st EXCEPT !.db.action_items =
                           @ \cup {[id |-> aid, note_id |-> nid,
                                    description |-> description,
                                    is_completed |-> FALSE]},
                        !.db.seq.action_items = aid]

\* SELECT id FROM contacts WHERE name = ?  (0 when fetchone() is None)
SelectContactId(d, name) ==
    IF \E c \in d.contacts : c.name = name
    THEN (CHOOSE c \in d.contacts : c.name = name).id
    ELSE 0

\* ContactNameFree without the UNIQUE constraint on contacts.name.
ContactNameAny(d, name) == TRUE

\* contacts.name UNIQUE
ContactNameFree(d, name) == \A c \in d.contacts : c.name # name

\* INSERT INTO contacts (name, phone, email)
InsertContact(st, name, phone, email) ==
    IF ~ContactNameFree(st.db, name) THEN Raise(st, "UNIQUE constraint failed")
    ELSE LET cid == st.db.seq.contacts + 1
         IN  [st EXCEPT !.db.contacts =
                           @ \cup {[id |-> cid, name |-> name,
                                    phone |-> phone, email |-> email]},
                        !.db.seq.contacts = cid]

\* FillPhone without `AND phone = ''`.
FillPhoneAlways(d, cid, phone) ==
    [d EXCEPT !.contacts = {IF c.id = cid THEN [c EXCEPT !.phone = phone] ELSE c : c \in @}]

\* UPDATE contacts SET phone = ? WHERE id = ? AND phone = ''
FillPhone(d, cid, phone) ==
    [d EXCEPT !.contacts =
        {IF c.id = cid /\ c.phone = "" THEN [c EXCEPT !.phone = phone] ELSE c : c \in @}]

\* UPDATE contacts SET email = ? WHERE id = ? AND email = ''
FillEmail(d, cid, email) ==
    [d EXCEPT !.contacts =
        {IF c.id = cid /\ c.email = "" THEN [c EXCEPT !.email = email] ELSE c : c \in @}]

\* note_contacts REFERENCES notes(id) and contacts(id); OR IGNORE does not
\* cover foreign keys.
LinkFkOk(d, nid, cid) == NoteExists(d, nid) /\ ContactExists(d, cid)

\* INSERT OR IGNORE INTO note_contacts (note_id, contact_id)
InsertLink(st, nid, cid) ==
    IF <<nid, cid>> \in st.db.note_contacts THEN st
    ELSE IF ~LinkFkOk(st.db, nid, cid) THEN Raise(st, "FOREIGN KEY constraint failed")
    ELSE [st EXCEPT !.db.note_contacts = @ \cup {<<nid, cid>>}]

\* reminders.reminder_type CHECK(reminder_type IN ('call', 'follow_up'))
ReminderTypeOk(type) == type \in {"call", "follow_up"}

\* INSERT INTO reminders (contact_id, reminder_type, message, due_date)
InsertReminder(st, cid, type, message) ==
    IF ~ReminderTypeOk(type) THEN Raise(st, "CHECK constraint failed")
    ELSE IF ~ContactExists(st.db, cid) THEN Raise(st, "FOREIGN KEY constraint failed")
    ELSE LET rid == st.db.seq.reminders + 1
         IN  [st EXCEPT !.db.reminders =
                           @ \cup {[id |-> rid, contact_id |-> cid,
                                    reminder_type |-> type, message |-> message]},
                        !.db.seq.reminders = rid]

\* DELETE FROM notes WHERE id = ? ; action_items and note_contacts cascade.
DeleteNoteRow(d, nid) ==
    [d EXCEPT !.notes = {n \in @ : n.id # nid},
              !.action_items = {a \in @ : a.note_id # nid},
              !.note_contacts = {l \in @ : l[1] # nid}]

\* DELETE FROM contacts WHERE id = ? ; note_contacts and reminders cascade.
DeleteContactRow(d, cid) ==
    [d EXCEPT !.contacts = {c \in @ : c.id # cid},
              !.note_contacts = {l \in @ : l[2] # cid},
              !.reminders = {r \in @ : r.contact_id # cid}]

\* Commit without the rollback of the except branch.
CommitAlways(before, st) == st.db

\* get_db(): commit when the block ends normally, roll back when it raised.
Commit(before, st) == IF st.err = "" THEN st.db ELSE before


\* ------------------------------------------------------ Consistency Writer
\* An extraction result is a JSON value: [kind |-> "dict"] with the keys it
\* holds, [kind |-> "list"] or [kind |-> "null"].  The items of its lists are
\* dicts, records with the keys they hold.
IsDict(data) == data.kind = "dict"

\* for item in data.get("action_items", []): INSERT INTO action_items ...
RECURSIVE SaveActionItems(_, _, _)
SaveActionItems(st, note_id, items) ==
    IF st.err # "" \/ items = <<>> THEN st
    ELSE LET item == Head(items)
             st1 == IF "description" \notin DOMAIN item
                    THEN Raise(st, "KeyError")
                    ELSE InsertActionItem(st, note_id, item.description)
         IN  SaveActionItems(st1, note_id, Tail(items))

\* The branch taken for a contact whose name is in the store: fill the phone
\* and email that are empty, never overwrite.
UpsertExisting(st, cid, c) ==
    LET d1 == IF Get(c, "phone", "") # "" THEN FillPhone(st.db, cid, c.phone) ELSE st.db
        d2 == IF Get(c, "email", "") # "" THEN FillEmail(d1, cid, c.email) ELSE d1
    IN  [st EXCEPT !.db = d2]

\* SaveContact without the lookup: every listed contact is inserted.
SaveContactNoLookup(st, note_id, c) ==
    IF "name" \notin DOMAIN c THEN Raise(st, "KeyError")
    ELSE LET st1 == InsertContact(st, c.name, Get(c, "phone", ""), Get(c, "email", ""))
         IN  IF st1.err # "" THEN st1
             ELSE InsertLink([st1 EXCEPT !.map = [n \in DOMAIN @ \cup {c.name} |->
                                                   IF n = c.name THEN st1.db.seq.contacts
                                                   ELSE @[n]]],
                             note_id, st1.db.seq.contacts)

\* One iteration of `for c in data.get("contacts", [])`: look the name up,
\* reuse or insert, record the id in contact_map, link the note.
SaveContact(st, note_id, c) ==
    IF "name" \notin DOMAIN c THEN Raise(st, "KeyError")
    ELSE LET existing == SelectContactId(st.db, c.name)
             st1 == IF existing # 0
                    THEN UpsertExisting(st, existing, c)
                    ELSE InsertContact(st, c.name, Get(c, "phone", ""), Get(c, "email", ""))
             cid == IF existing # 0 THEN existing ELSE st1.db.seq.contacts
         IN  IF st1.err # "" THEN st1
             ELSE LET st2 == [st1 EXCEPT !.map = [n \in DOMAIN @ \cup {c.name} |->
                                                    IF n = c.name THEN cid ELSE @[n]]]
                  IN  InsertLink(st2, note_id, cid)

RECURSIVE SaveContacts(_, _, _)
SaveContacts(st, note_id, cs) ==
    IF st.err # "" \/ cs = <<>> THEN st
    ELSE SaveContacts(SaveContact(st, note_id, Head(cs)), note_id, Tail(cs))

\* ResolveReminderContact without the SELECT for names missing from contact_map.
ResolveFromMapOnly(st, contact_name) ==
    IF contact_name \in DOMAIN st.map THEN st.map[contact_name] ELSE 0

\* The contact a reminder attaches to: contact_map first, else a fresh
\* SELECT by name; 0 when neither finds one.
ResolveReminderContact(st, contact_name) ==
    IF contact_name \in DOMAIN st.map THEN st.map[contact_name]
    ELSE SelectContactId(st.db, contact_name)

\* One iteration of `for r in data.get("reminders", [])`.
SaveReminder(st, r) ==
    LET cid == ResolveReminderContact(st, Get(r, "contact_name", NoStr))
    IN  IF cid = 0 THEN st
        ELSE InsertReminder(st, cid, Get(r, "type", "follow_up"), Get(r, "message", NoStr))

RECURSIVE SaveReminders(_, _)
SaveReminders(st, rs) ==
    IF st.err # "" \/ rs = <<>> THEN st
    ELSE SaveReminders(SaveReminder(st, Head(rs)), Tail(rs))

\* The body of `with get_db() as db:` in _save_extractions.
SaveBody(d, note_id, data) ==
    LET st0 == [db |-> d, err |-> "", map |-> [n \in {} |-> 0]]
    IN  IF ~IsDict(data) THEN Raise(st0, "AttributeError")
        ELSE LET st1 == SaveActionItems(st0, note_id, Get(data, "action_items", <<>>))
                 st2 == SaveContacts(st1, note_id, Get(data, "contacts", <<>>))
             IN  SaveReminders(st2, Get(data, "reminders", <<>>))

\* _save_extractions(note_id, data): the store it leaves and the exception
\* it raises.
_save_extractions(d, note_id, data) ==
    LET st == SaveBody(d, note_id, data)
    IN  [db |-> Commit(d, st), err |-> st.err]


\* ------------------------------------------------------- Pattern Extractor
_STOP_WORDS ==
    {<<"m", "e">>, <<"h", "i", "m">>, <<"h", "e", "r">>,
     <<"t", "h", "e", "m">>, <<"u", "s">>, <<"i", "t">>,
     <<"t", "h", "i", "s">>, <<"t", "h", "a", "t">>, <<"t", "h", "e">>,
     <<"a">>, <<"a", "n">>, <<"a", "n", "d">>, <<"o", "r">>,
     <<"b", "u", "t">>, <<"i", "n">>, <<"o", "n">>, <<"a", "t">>,
     <<"t", "o">>, <<"f", "o", "r">>, <<"o", "f">>, <<"w", "i", "t", "h">>,
     <<"a", "b", "o", "u", "t">>, <<"b", "a", "c", "k">>, <<"u", "p">>,
     <<"o", "u", "t">>, <<"m", "y">>, <<"y", "o", "u", "r">>,
     <<"h", "i", "s">>, <<"t", "h", "e", "i", "r">>, <<"o", "u", "r">>,
     <<"v", "i", "a">>, <<"e", "m", "a", "i", "l">>,
     <<"p", "h", "o", "n", "e">>, <<"m", "o", "n", "d", "a", "y">>,
     <<"t", "u", "e", "s", "d", "a", "y">>,
     <<"w", "e", "d", "n", "e", "s", "d", "a", "y">>,
     <<"t", "h", "u", "r", "s", "d", "a", "y">>,
     <<"f", "r", "i", "d", "a", "y">>,
     <<"s", "a", "t", "u", "r", "d", "a", "y">>,
     <<"s", "u", "n", "d", "a", "y">>,
     <<"t", "o", "m", "o", "r", "r", "o", "w">>, <<"t", "o", "d", "a", "y">>,
     <<"n", "e", "x", "t">>, <<"w", "e", "e", "k">>,
     <<"m", "o", "n", "t", "h">>, <<"y", "e", "a", "r">>,
     <<"a", "s", "a", "p">>}

\* The (title, content) pairs a request submits.
\*   T1  "Memo"          / "call Sam!"
\*   T2  "Memo with Jo"  / "ring Jo"
\*   T3  "Memo"          / "must send it"
\*   T4  "Memo with Jo"  / "call me. check in Sam"
\*   T5  "Memo"          / "review and send it"
TEXTS == {"T1", "T2", "T3", "T4", "T5"}

Memo == <<"M", "e", "m", "o">>
MemoWithJo == <<"M", "e", "m", "o", " ", "w", "i", "t", "h", " ", "J", "o">>
CallSamBang == <<"c", "a", "l", "l", " ", "S", "a", "m", "!">>
CallSam == <<"c", "a", "l", "l", " ", "S", "a", "m">>
RingJo == <<"r", "i", "n", "g", " ", "J", "o">>
MustSendIt == <<"m", "u", "s", "t", " ", "s", "e", "n", "d", " ", "i", "t">>
SendIt == <<"s", "e", "n", "d", " ", "i", "t">>
CallMe == <<"c", "a", "l", "l", " ", "m", "e">>
CheckInSam == <<"c", "h", "e", "c", "k", " ", "i", "n", " ", "S", "a", "m">>
CallMeCheckInSam == <<"c", "a", "l", "l", " ", "m", "e", ".", " ", "c", "h", "e", "c", "k", " ", "i", "n", " ", "S", "a", "m">>
Me == <<"m", "e">>
ReviewAndSendIt == <<"r", "e", "v", "i", "e", "w", " ", "a", "n", "d", " ", "s", "e", "n", "d", " ", "i", "t">>

\* What the regular expressions find in a text, in the order the loops of
\* _rule_based_extract visit the matches:
\*   title_name  group(1) of the "with <Name>" search on the title (NoStr: no match)
\*   actions     group(1) of each _ACTION_PATTERNS match
\*   calls       (group(1), group(0)) of each _CALL_PATTERNS match
\*   followups   (group(1), group(0)) of each _FOLLOWUP_PATTERNS match
\*   lines       text.splitlines()
Matches(text) ==
    CASE text = "T1" ->
           [title_name |-> NoStr, actions |-> <<CallSamBang>>,
            calls |-> <<[word |-> Sam, phrase |-> CallSam]>>, followups |-> <<>>,
            lines |-> <<Memo, CallSamBang>>]
      [] text = "T2" ->
           [title_name |-> Jo, actions |-> <<>>,
            calls |-> <<[word |-> Jo, phrase |-> RingJo]>>, followups |-> <<>>,
            lines |-> <<MemoWithJo, RingJo>>]
      [] text = "T3" ->
           [title_name |-> NoStr, actions |-> <<MustSendIt, SendIt>>,
            calls |-> <<>>, followups |-> <<>>,
            lines |-> <<Memo, MustSendIt>>]
      [] text = "T4" ->
           [title_name |-> Jo, actions |-> <<CallMe>>,
            calls |-> <<[word |-> Me, phrase |-> CallMe]>>,
            followups |-> <<[word |-> Sam, phrase |-> CheckInSam]>>,
            lines |-> <<MemoWithJo, CallMeCheckInSam>>]
      [] text = "T5" ->
           [title_name |-> NoStr, actions |-> <<SendIt, ReviewAndSendIt>>,
            calls |-> <<>>, followups |-> <<>>,
            lines |-> <<Memo, ReviewAndSendIt>>]

\* Absorbed that skips nothing.
AbsorbedNever(lower, seen) == FALSE

\* if any(lower in s or s in lower for s in seen_actions): continue
Absorbed(lower, seen) ==
    \E s \in seen : IsSubstring(lower, s) \/ IsSubstring(s, lower)

\* One candidate of the action-cue pass: acc is [seen, items].
AcceptAction(acc, raw) ==
    LET desc == RStripPunct(raw)
        lower == Lower(desc)
    IN  IF desc = <<>> \/ Len(desc) <= 3 THEN acc
        ELSE IF Absorbed(lower, acc.seen) THEN acc
        ELSE [seen |-> {s \in acc.seen : ~IsSubstring(s, lower)} \cup {lower},
              items |-> Append(SelectSeq(acc.items,
                                   LAMBDA a : ~IsSubstring(Lower(a.description), lower)),
                               [description |-> desc])]

RECURSIVE ActionPass(_, _)
ActionPass(acc, cands) ==
    IF cands = <<>> THEN acc
    ELSE ActionPass(AcceptAction(acc, Head(cands)), Tail(cands))

\* name.lower() not in _STOP_WORDS and name[0].isupper()
IsName(word) == Lower(word) \notin _STOP_WORDS /\ IsUpperChar(word[1])

SeqRange(s) == {s[i] : i \in DOMAIN s}

\* contact_names: the title's name and the names after the call and follow-up cues.
ContactNames(m) ==
    (IF m.title_name # NoStr THEN {m.title_name} ELSE {})
    \cup {x.word : x \in {y \in SeqRange(m.calls \o m.followups) : IsName(y.word)}}

\* The orders in which `for name in contact_names` may visit a set.
Orders(S) ==
    {o \in [1..Cardinality(S) -> S] : \A i, j \in DOMAIN o : i # j => o[i] # o[j]}

RECURSIVE CueReminders(_, _)
CueReminders(ms, type) ==
    IF ms = <<>> THEN <<>>
    ELSE (IF IsName(Head(ms).word)
          THEN <<[contact_name |-> Head(ms).word, type |-> type,
                  message |-> Head(ms).phrase]>>
          ELSE <<>>) \o CueReminders(Tail(ms), type)

RECURSIVE LineItems(_)
LineItems(lines) ==
    IF lines = <<>> THEN <<>>
    ELSE (IF Len(Head(lines)) > 5 THEN <<[description |-> Head(lines)]>> ELSE <<>>)
         \o LineItems(Tail(lines))

\* _rule_based_extract(title, content); order is the iteration order of the
\* contact_names set.
_rule_based_extract(text, order) ==
    LET m == Matches(text)
        cued == ActionPass([seen |-> {}, items |-> <<>>], m.actions).items
        names == ContactNames(m)
        items == IF names # {} /\ cued = <<>> THEN LineItems(m.lines) ELSE cued
    IN  [kind |-> "dict",
         action_items |-> items,
         contacts |-> [i \in DOMAIN order |->
                          [name |-> order[i], phone |-> "", email |-> ""]],
         reminders |-> CueReminders(m.calls, "call")
                       \o CueReminders(m.followups, "follow_up")]


\* -------------------------------------------------- Extraction Orchestrator
\* What the model may answer, as JSON values.
PFull ==
    [kind |-> "dict",
     action_items |-> <<[description |-> SendIt]>>,
     contacts |-> <<[name |-> Sam, phone |-> "555", email |-> ""]>>,
     reminders |-> <<[contact_name |-> Sam, type |-> "call", message |-> CallSam]>>]
PUnlisted ==
    [kind |-> "dict", action_items |-> <<>>, contacts |-> <<>>,
     reminders |-> <<[contact_name |-> Sam, type |-> "call", message |-> CallSam]>>]
PRepeat ==
    [kind |-> "dict",
     contacts |-> <<[name |-> Sam, email |-> "s@x"],
                    [name |-> Sam, phone |-> "777", email |-> "t@x"]>>]
PList == [kind |-> "list"]
PNoDescription ==
    [kind |-> "dict",
     action_items |-> <<[description |-> SendIt], [task |-> CallMe]>>]
PBadType ==
    [kind |-> "dict",
     action_items |-> <<[description |-> SendIt]>>,
     contacts |-> <<[name |-> Jo, phone |-> "", email |-> "j@x"]>>,
     reminders |-> <<[contact_name |-> Jo, type |-> "email", message |-> RingJo]>>]
PNull == [kind |-> "null"]
PNoType ==
    [kind |-> "dict",
     contacts |-> <<[name |-> Jo]>>,
     reminders |-> <<[contact_name |-> Jo, message |-> RingJo],
                     [contact_name |-> Sam, type |-> "follow_up",
                      message |-> CheckInSam]>>]

PAYLOADS == {PFull, PUnlisted, PRepeat, PList, PNoDescription, PBadType, PNull, PNoType}

\* The response text, as tokens: a code fence, a line break, a JSON document
\* (with the value it parses to), or text that is no JSON.
Fence == [t |-> "fence"]
Nl == [t |-> "nl"]
Junk == [t |-> "junk"]
Json(v) == [t |-> "json", v |-> v]

\* An outcome of the call to the model: no credential, the call raises, or
\* the text of its answer.
AI_OUTCOMES ==
    {[key |-> FALSE], [key |-> TRUE, raises |-> TRUE]}
    \cup {[key |-> TRUE, raises |-> FALSE, raw |-> <<Json(v)>>] : v \in PAYLOADS}
    \cup {[key |-> TRUE, raises |-> FALSE, raw |-> r] :
            r \in {<<Junk>>,
                   <<Fence, Nl, Json(PFull), Nl, Fence>>,
                   <<Fence, Json(PFull), Fence>>}}

\* raw.split("\n", 1)[1]: <<>> stands for the IndexError when raw has no line break.
AfterFirstNewline(raw) ==
    IF \E i \in DOMAIN raw : raw[i].t = "nl"
    THEN LET i == CHOOSE k \in DOMAIN raw :
                     raw[k].t = "nl" /\ \A j \in 1..(k - 1) : raw[j].t # "nl"
         IN  [ok |-> TRUE, rest |-> SubSeq(raw, i + 1, Len(raw))]
    ELSE [ok |-> FALSE, rest |-> <<>>]

\* raw.rsplit("```", 1)[0]
BeforeLastFence(raw) ==
    IF \E i \in DOMAIN raw : raw[i].t = "fence"
    THEN LET i == CHOOSE k \in DOMAIN raw :
                     raw[k].t = "fence" /\ \A j \in (k + 1)..Len(raw) : raw[j].t # "fence"
         IN  SubSeq(raw, 1, i - 1)
    ELSE raw

\* json.loads: one JSON document, blanks around it allowed.
JsonLoads(raw) ==
    LET body == SelectSeq(raw, LAMBDA x : x.t # "nl")
    IN  IF Len(body) = 1 /\ body[1].t = "json"
        THEN [ok |-> TRUE, v |-> body[1].v]
        ELSE [ok |-> FALSE, v |-> PNull]

\* The value of `data` after the try block of extract_from_note (None is
\* PNull, the value json.loads gives for null).
AiData(ai) ==
    IF ~ai.key THEN PNull
    ELSE IF ai.raises THEN PNull
    ELSE LET fenced == ai.raw # <<>> /\ ai.raw[1].t = "fence"
             cut == AfterFirstNewline(ai.raw)
             raw == IF fenced THEN BeforeLastFence(cut.rest) ELSE ai.raw
             parsed == JsonLoads(raw)
         IN  IF (fenced /\ ~cut.ok) \/ ~parsed.ok
             THEN PNull
             ELSE parsed.v

\* UseFallback that never falls back.
UseFallbackNever(data) == FALSE

\* if data is None: data = _rule_based_extract(title, content)
UseFallback(data) == data.kind = "null"

\* extract_from_note(note_id, title, content): err is the exception that
\* reaches the caller ("" when it returns normally).
extract_from_note(d, note_id, text, ai, order) ==
    LET got == AiData(ai)
        fallback == UseFallback(got)
        data == IF fallback THEN _rule_based_extract(text, order) ELSE got
        saved == _save_extractions(d, note_id, data)
    IN  [db |-> saved.db, err |-> saved.err, data |-> data, fallback |-> fallback]


\* ------------------------------------------------------------ the requests
NoData == [kind |-> "none"]
NoRows == [actions |-> {}, links |-> {}, reminders |-> {}]

Ids(rows) == {r.id : r \in rows}

\* The rows a transaction added.
NewRows(before, after) ==
    [actions |-> Ids(after.action_items) \ Ids(before.action_items),
     links |-> after.note_contacts \ before.note_contacts,
     reminders |-> Ids(after.reminders) \ Ids(before.reminders)]

\* The AUTOINCREMENT counters stay within the model's bounds.
WithinBounds(d) ==
    /\ d.seq.notes <= MaxNotes
    /\ d.seq.contacts <= MaxContacts
    /\ d.seq.action_items <= MaxActions
    /\ d.seq.reminders <= MaxReminders

\* The identifiers a request may name: those handed out so far and one more,
\* which no row has.
NoteIds(d) == 1..(d.seq.notes + 1)
ContactIds(d) == 1..(d.seq.contacts + 1)
ActionIds(d) == 1..(d.seq.action_items + 1)

Parsed(v) == [key |-> TRUE, raises |-> FALSE, raw |-> <<Json(v)>>]

\* The submissions followed when requests are served one at a time: every
\* text without a credential, and every answer of the model that is not null.
SUBMISSIONS ==
    {[text |-> t, ai |-> [key |-> FALSE]] : t \in TEXTS}
    \cup {[text |-> "T3", ai |-> Parsed(v)] : v \in PAYLOADS \ {PNull}}

\* The history of a request: what it was, the store before it (pre), the
\* rows the note's previous extraction had produced (old), and for an
\* extraction the outcome of the model call, the data handed to the writer
\* and the exception that reached the caller.
\* The response (status, body as words, calls made to the external service)
\* is part of it; status 0 stands for a request that has not answered yet,
\* 500 for an exception that left the handler.
NoBody == <<>>
NoUpload == [content_type |-> "", size |-> 0]

Request(op, id, pre, old) ==
    [op |-> op, id |-> id, text |-> "", ai |-> [key |-> FALSE], fallback |-> FALSE,
     data |-> NoData, err |-> "", pre |-> pre, old |-> old,
     status |-> 200, body |-> NoBody, calls |-> 0, upload |-> NoUpload]

Respond(rec, status, body) == [rec EXCEPT !.status = status, !.body = body]

\* return RedirectResponse(..., status_code=303), reached when
\* extract_from_note returned.
Extraction(op, id, text, ai, res, pre, old) ==
    [op |-> op, id |-> id, text |-> text, ai |-> ai, fallback |-> res.fallback,
     data |-> res.data, err |-> res.err, pre |-> pre, old |-> old,
     status |-> IF res.err = "" THEN 303 ELSE 500, body |-> NoBody,
     calls |-> IF ai.key THEN 1 ELSE 0, upload |-> NoUpload]

NameOrders(text) == Orders(ContactNames(Matches(text)))

\* create_note, first transaction: INSERT INTO notes.
CreateTx(d, text) == InsertNote(d, text)

\* PurgedContacts without the test for other notes: every contact of the note.
PurgedContactsAll(d, note_id) == {l[2] : l \in {k \in d.note_contacts : k[1] = note_id}}

\* update_note: the contacts whose reminders the cleanup deletes, those
\* linked to this note and to no other.
PurgedContacts(d, note_id) ==
    {l[2] : l \in {k \in d.note_contacts :
                     /\ k[1] = note_id
                     /\ ~\E o \in d.note_contacts : o[2] = k[2] /\ o[1] # note_id}}

\* ClearActionItems that spares the completed items.
ClearPendingItems(d, note_id) ==
    [d EXCEPT !.action_items = {a \in @ : a.note_id # note_id \/ a.is_completed}]

\* update_note: DELETE FROM action_items WHERE note_id = ?
ClearActionItems(d, note_id) ==
    [d EXCEPT !.action_items = {a \in @ : a.note_id # note_id}]

\* UpdateTx that commits nothing.
UpdateTxNothing(d, note_id, text) == d

\* update_note, first transaction: the note's new fields and the cleanup of
\* what the old content produced.
UpdateTx(d, note_id, text) ==
    LET d1 == ClearActionItems(UpdateNoteRow(d, note_id, text), note_id)
        purged == PurgedContacts(d1, note_id)
    IN  [d1 EXCEPT !.reminders = {r \in @ : r.contact_id \notin purged},
                   !.note_contacts = {l \in @ : l[1] # note_id}]

\* OrphanContacts without the NOT IN subquery: every contact of the note.
OrphanContactsAllLinked(d, note_id) ==
    {l[2] : l \in {k \in d.note_contacts : k[1] = note_id}}

\* delete_note: the contacts linked to this note only.
OrphanContacts(d, note_id) ==
    {l[2] : l \in {k \in d.note_contacts :
                     /\ k[1] = note_id
                     /\ k[2] \notin {o[2] : o \in {x \in d.note_contacts : x[1] # note_id}}}}

RECURSIVE DeleteContacts(_, _)
DeleteContacts(d, cids) ==
    IF cids = {} THEN d
    ELSE LET c == CHOOSE x \in cids : TRUE
         IN  DeleteContacts(DeleteContactRow(d, c), cids \ {c})

\* delete_note: one transaction.
DeleteNoteTx(d, note_id) ==
    LET orphans == OrphanContacts(d, note_id)
    IN  DeleteContacts(DeleteNoteRow(d, note_id), orphans)

\* toggle_action: UPDATE action_items SET is_completed = NOT is_completed
ToggleTx(d, action_id) ==
    [d EXCEPT !.action_items =
        {IF a.id = action_id THEN [a EXCEPT !.is_completed = ~@] ELSE a : a \in @}]

\* toggle_action: the row read back through the join with notes, 404 without it.
NotFound == <<"Not", "found">>
toggle_action_response(rec, d, action_id) ==
    IF \E a \in d.action_items : a.id = action_id /\ NoteExists(d, a.note_id)
    THEN rec
    ELSE Respond(rec, 404, NotFound)

\* delete_action: DELETE FROM action_items WHERE id = ?
DeleteActionTx(d, action_id) ==
    [d EXCEPT !.action_items = {a \in @ : a.id # action_id}]

\* DeleteCompletedTx without the WHERE clause.
DeleteEveryActionTx(d) == [d EXCEPT !.action_items = {}]

\* delete_completed_actions: DELETE FROM action_items WHERE is_completed = 1
DeleteCompletedTx(d) ==
    [d EXCEPT !.action_items = {a \in @ : ~a.is_completed}]

Init ==
    /\ db = EmptyDb
    /\ inflight = {}
    /\ extracted = [n \in 1..(MaxNotes + 1) |-> NoRows]
    /\ last = Request("init", 0, EmptyDb, NoRows)
    /\ steps = 0

\* The model follows MaxSteps requests.
Step == steps < MaxSteps /\ steps' = steps + 1

\* POST /notes, the whole handler.
CreateNote ==
    \E sub \in SUBMISSIONS :
      \E order \in NameOrders(sub.text) :
        LET text == sub.text
            ai == sub.ai
            d1 == CreateTx(db, text)
            note_id == d1.seq.notes
            res == extract_from_note(d1, note_id, text, ai, order)
        IN  /\ Step
            /\ inflight = {}
            /\ WithinBounds(res.db)
            /\ db' = res.db
            /\ extracted' = [extracted EXCEPT ![note_id] = NewRows(d1, res.db)]
            /\ last' = Extraction("create_note", note_id, text, ai, res, db, NoRows)
            /\ UNCHANGED inflight

\* POST /notes/{note_id}/update, the whole handler.
UpdateNote ==
    \E note_id \in NoteIds(db), sub \in SUBMISSIONS :
      \E order \in NameOrders(sub.text) :
        LET text == sub.text
            ai == sub.ai
            d1 == UpdateTx(db, note_id, text)
            res == extract_from_note(d1, note_id, text, ai, order)
        IN  /\ Step
            /\ inflight = {}
            /\ WithinBounds(res.db)
            /\ db' = res.db
            /\ extracted' = [extracted EXCEPT ![note_id] = NewRows(d1, res.db)]
            /\ last' = Extraction("update_note", note_id, text, ai, res, db, extracted[note_id])
            /\ UNCHANGED inflight

\* DELETE /notes/{note_id}
DeleteNote ==
    \E note_id \in NoteIds(db) :
        /\ Step
        /\ db' = DeleteNoteTx(db, note_id)
        /\ extracted' = [extracted EXCEPT ![note_id] = NoRows]
        /\ last' = Request("delete_note", note_id, db, extracted[note_id])
        /\ UNCHANGED inflight

\* DELETE /contacts/{contact_id}
DeleteContact ==
    \E contact_id \in ContactIds(db) :
        /\ Step
        /\ db' = DeleteContactRow(db, contact_id)
        /\ last' = Request("delete_contact", contact_id, db, NoRows)
        /\ UNCHANGED <<inflight, extracted>>

\* POST /actions/{action_id}/toggle
ToggleAction ==
    \E action_id \in ActionIds(db) :
        /\ Step
        /\ db' = ToggleTx(db, action_id)
        /\ last' = toggle_action_response(Request("toggle_action", action_id, db, NoRows),
                                           db, action_id)
        /\ UNCHANGED <<inflight, extracted>>

\* DELETE /actions/{action_id}
DeleteAction ==
    \E action_id \in ActionIds(db) :
        /\ Step
        /\ db' = DeleteActionTx(db, action_id)
        /\ last' = Request("delete_action", action_id, db, NoRows)
        /\ UNCHANGED <<inflight, extracted>>

\* DELETE /actions
DeleteCompletedActions ==
    /\ Step
    /\ db' = DeleteCompletedTx(db)
    /\ last' = Request("delete_completed_actions", 0, db, NoRows)
    /\ UNCHANGED <<inflight, extracted>>

Next ==
    \/ CreateNote
    \/ UpdateNote
    \/ DeleteNote
    \/ DeleteContact
    \/ ToggleAction
    \/ DeleteAction
    \/ DeleteCompletedActions

\* Requests served one at a time.
Spec == Init /\ [][Next]_vars


\* ---------------------------------------------- requests that interleave
\* create_note and update_note commit their first transaction, then call
\* extract_from_note, which opens a second one.  Here another request may be
\* served between the two: each `with get_db()` block is one step.
Job(note_id, text) == [note_id |-> note_id, text |-> text]

\* create_note up to the call of extract_from_note.
BeginCreate ==
    \E text \in TEXTS :
        LET d1 == CreateTx(db, text)
        IN  /\ Step
            /\ steps < MaxConcSteps
            /\ Cardinality(inflight) < MaxInflight
            /\ WithinBounds(d1)
            /\ db' = d1
            /\ inflight' = inflight \cup {Job(d1.seq.notes, text)}
            /\ extracted' = [extracted EXCEPT ![d1.seq.notes] = NoRows]
            /\ last' = [Request("create_note", d1.seq.notes, db, NoRows) EXCEPT
                           !.text = text, !.status = 0]

\* update_note up to the call of extract_from_note.
BeginUpdate ==
    \E note_id \in NoteIds(db), text \in TEXTS :
        /\ Step
        /\ steps < MaxConcSteps
        /\ Cardinality(inflight) < MaxInflight
        /\ db' = UpdateTx(db, note_id, text)
        /\ inflight' = inflight \cup {Job(note_id, text)}
        /\ extracted' = [extracted EXCEPT ![note_id] = NoRows]
        /\ last' = [Request("update_note", note_id, db, extracted[note_id]) EXCEPT
                       !.text = text, !.status = 0]

\* extract_from_note, called by a request that has begun (and was counted
\* when it began).
Persist ==
    \E job \in inflight, ai \in AI_OUTCOMES :
      \E order \in NameOrders(job.text) :
        LET res == extract_from_note(db, job.note_id, job.text, ai, order)
            new == NewRows(db, res.db)
        IN  /\ WithinBounds(res.db)
            /\ UNCHANGED steps
            /\ db' = res.db
            /\ inflight' = inflight \ {job}
            /\ extracted' =
                 [extracted EXCEPT ![job.note_id] =
                    [actions |-> @.actions \cup new.actions,
                     links |-> @.links \cup new.links,
                     reminders |-> @.reminders \cup new.reminders]]
            /\ last' = Extraction("extract_from_note", job.note_id, job.text, ai, res, db,
                                 extracted[job.note_id])

NextConc ==
    \/ BeginCreate
    \/ BeginUpdate
    \/ Persist
    \/ DeleteNote
    \/ DeleteContact

\* Requests of several workers on one store; MaxConcSteps of them may be a
\* create or an update.
SpecConc == Init /\ [][NextConc]_vars


\* ------------------------------------------------------ pages read by id
NoteNotFound == <<"Note", "not", "found">>
ContactNotFound == <<"Contact", "not", "found">>

\* detail_note and edit_note: 404 when the SELECT finds no note, else the page.
note_page_response(rec, d, note_id) ==
    IF NoteExists(d, note_id) THEN rec ELSE Respond(rec, 404, NoteNotFound)

\* contact_detail
contact_detail_response(rec, d, contact_id) ==
    IF ContactExists(d, contact_id) THEN rec ELSE Respond(rec, 404, ContactNotFound)

\* GET /notes/{note_id}
DetailNote ==
    \E note_id \in NoteIds(db) :
        /\ Step
        /\ last' = note_page_response(Request("detail_note", note_id, db, NoRows), db, note_id)
        /\ UNCHANGED <<db, inflight, extracted>>

\* GET /notes/{note_id}/edit
EditNote ==
    \E note_id \in NoteIds(db) :
        /\ Step
        /\ last' = note_page_response(Request("edit_note", note_id, db, NoRows), db, note_id)
        /\ UNCHANGED <<db, inflight, extracted>>

\* GET /contacts/{contact_id}
ContactDetail ==
    \E contact_id \in ContactIds(db) :
        /\ Step
        /\ last' = contact_detail_response(Request("contact_detail", contact_id, db, NoRows),
                                           db, contact_id)
        /\ UNCHANGED <<db, inflight, extracted>>

NextById ==
    \/ Next
    \/ DetailNote
    \/ EditNote
    \/ ContactDetail

\* The requests served one at a time, with the pages read by identifier.
SpecById == Init /\ [][NextById]_vars


\* ----------------------------------------------------- POST /notes/ocr-image
_ALLOWED_IMAGE_TYPES == {"image/jpeg", "image/png", "image/gif", "image/webp"}
_MAX_IMAGE_SIZE == 5 * 1024 * 1024

UnsupportedFileType == <<"Unsupported", "file", "type">>
UnsupportedBody ==
    UnsupportedFileType \o <<".", "Please", "upload", "a", "JPEG", ",", "PNG", ",",
                             "GIF", ",", "or", "WebP", "image", ".">>
TooLargeBody == <<"Image", "too", "large", ".", "Maximum", "size", "is", "5", "MB", ".">>
MissingKeyMessage ==
    <<"ANTHROPIC_API_KEY", "is", "required", "for", "image", "text", "extraction">>
FailedBody == <<"Text", "extraction", "failed", ".", "Please", "try", "again", ".">>
SuccessBody == <<"Text", "extracted", "successfully", ".">>

\* What is uploaded and how the vision service behaves.
UPLOADS ==
    [content_type : _ALLOWED_IMAGE_TYPES \cup {"application/pdf"},
     size : {0, _MAX_IMAGE_SIZE - 1, _MAX_IMAGE_SIZE, _MAX_IMAGE_SIZE + 1}]

OCR_OUTCOMES ==
    {[key |-> FALSE], [key |-> TRUE, raises |-> TRUE], [key |-> TRUE, raises |-> FALSE]}

\* extract_text_from_image: ValueError without a credential, before the
\* service is called; otherwise one call, which raises or returns the text.
extract_text_from_image(ai) ==
    IF ~ai.key THEN [err |-> "ValueError", message |-> MissingKeyMessage, calls |-> 0]
    ELSE IF ai.raises THEN [err |-> "Exception", message |-> NoBody, calls |-> 1]
    ELSE [err |-> "", message |-> NoBody, calls |-> 1]

\* ocr_image without the size validation of lines 51-56.
ocr_image_any_size(upload, ai) ==
    IF upload.content_type \notin _ALLOWED_IMAGE_TYPES
    THEN [status |-> 422, body |-> UnsupportedBody, calls |-> 0]
    ELSE LET r == extract_text_from_image(ai)
         IN  CASE r.err = "ValueError" ->
                    [status |-> 422, body |-> r.message, calls |-> r.calls]
               [] r.err = "Exception" ->
                    [status |-> 500, body |-> FailedBody, calls |-> r.calls]
               [] OTHER ->
                    [status |-> 200, body |-> SuccessBody, calls |-> r.calls]

\* ocr_image: [status, body, calls]
ocr_image(upload, ai) ==
    IF upload.content_type \notin _ALLOWED_IMAGE_TYPES
    THEN [status |-> 422, body |-> UnsupportedBody, calls |-> 0]
    ELSE IF upload.size > _MAX_IMAGE_SIZE
    THEN [status |-> 422, body |-> TooLargeBody, calls |-> 0]
    ELSE LET r == extract_text_from_image(ai)
         IN  CASE r.err = "ValueError" ->
                    [status |-> 422, body |-> r.message, calls |-> r.calls]
               [] r.err = "Exception" ->
                    [status |-> 500, body |-> FailedBody, calls |-> r.calls]
               [] OTHER ->
                    [status |-> 200, body |-> SuccessBody, calls |-> r.calls]

OcrImage ==
    \E upload \in UPLOADS, ai \in OCR_OUTCOMES :
        LET r == ocr_image(upload, ai)
        IN  /\ Step
            /\ last' = [Request("ocr_image", 0, db, NoRows) EXCEPT
                           !.upload = upload, !.ai = ai, !.status = r.status,
                           !.body = r.body, !.calls = r.calls]
            /\ UNCHANGED <<db, inflight, extracted>>

\* Uploads to the OCR endpoint, which reads and writes no table.
SpecOcr == Init /\ [][OcrImage]_vars


\* ------------------------------------- extractions that run side by side
\* Two processes serve requests on the same database file.  Each statement of
\* _save_extractions is a step.  SQLite (journal_mode=WAL) lets one
\* connection write at a time: the first INSERT or UPDATE of a connection
\* takes the write lock, commit or rollback releases it; a SELECT outside a
\* write transaction reads the committed store.  A connection that finds the
\* lock taken waits, and gives up with "database is locked" when its busy
\* timeout expires.
\* A worker is an extraction between the commit of its note and its own
\* commit: pc is the statement it is at, found the result of its lookup,
\* tx whether it holds the write lock, st its transaction.
PJustSam == [kind |-> "dict", contacts |-> <<[name |-> Sam]>>]
RACE_RESULTS == {PJustSam, PFull}

NoTx == [db |-> EmptyDb, err |-> "", map |-> [n \in {} |-> 0]]

Worker(note_id, data) ==
    [note_id |-> note_id, data |-> data,
     pc |-> IF Get(data, "action_items", <<>>) # <<>> THEN "items" ELSE "lookup",
     found |-> 0, tx |-> FALSE, st |-> NoTx, err |-> ""]

LockFreeFor(w) == \A o \in inflight : o # w => ~o.tx

\* The transaction a statement of w runs in: the one w has open, or a new
\* one on the committed store.
TxOf(w) == IF w.tx THEN w.st ELSE [db |-> db, err |-> "", map |-> [n \in {} |-> 0]]

\* The worker after a statement: rolled back and finished when it raised.
AfterStatement(w, st, pc) ==
    IF st.err # ""
    THEN [w EXCEPT !.pc = "done", !.tx = FALSE, !.st = NoTx, !.err = st.err]
    ELSE [w EXCEPT !.pc = pc, !.tx = TRUE, !.st = st]

Finished(w) ==
    [Extraction("extract_from_note", w.note_id, "T3", Parsed(w.data),
                [fallback |-> FALSE, data |-> w.data, err |-> w.err], db, NoRows)
        EXCEPT !.calls = 1]

\* create_note up to the call of _save_extractions: the note is committed
\* and the model has answered.
RaceBegin ==
    \E data \in RACE_RESULTS :
        LET d1 == CreateTx(db, "T3")
        IN  /\ Step
            /\ Cardinality(inflight) < MaxWorkers
            /\ \A o \in inflight : ~o.tx
            /\ WithinBounds(d1)
            /\ db' = d1
            /\ inflight' = inflight \cup {Worker(d1.seq.notes, data)}
            /\ last' = [Request("create_note", d1.seq.notes, db, NoRows) EXCEPT
                           !.text = "T3", !.status = 0]
            /\ UNCHANGED extracted

\* for item in data.get("action_items", []): the INSERTs open the transaction.
RaceItems ==
    \E w \in inflight :
        LET st == SaveActionItems(TxOf(w), w.note_id, w.data.action_items)
            w2 == AfterStatement(w, st, "lookup")
        IN  /\ w.pc = "items"
            /\ LockFreeFor(w)
            /\ inflight' = (inflight \ {w}) \cup {w2}
            /\ last' = IF w2.pc = "done" THEN Finished(w2) ELSE last
            /\ UNCHANGED <<db, extracted, steps>>

\* SELECT id FROM contacts WHERE name = ?
RaceLookup ==
    \E w \in inflight :
        /\ w.pc = "lookup"
        /\ inflight' = (inflight \ {w}) \cup
                         {[w EXCEPT !.pc = "upsert",
                                    !.found = SelectContactId(TxOf(w).db, w.data.contacts[1].name)]}
        /\ UNCHANGED <<db, extracted, last, steps>>

\* The branch the lookup chose, the link and the reminders.
RaceUpsert ==
    \E w \in inflight :
        LET c == w.data.contacts[1]
            st0 == TxOf(w)
            st1 == IF w.found # 0
                   THEN UpsertExisting(st0, w.found, c)
                   ELSE InsertContact(st0, c.name, Get(c, "phone", ""), Get(c, "email", ""))
            cid == IF w.found # 0 THEN w.found ELSE st1.db.seq.contacts
            st2 == IF st1.err # "" THEN st1
                   ELSE InsertLink([st1 EXCEPT !.map = [n \in {c.name} |-> cid]],
                                   w.note_id, cid)
            st3 == SaveReminders(st2, Get(w.data, "reminders", <<>>))
            w2 == AfterStatement(w, st3, "commit")
        IN  /\ w.pc = "upsert"
            /\ LockFreeFor(w)
            /\ WithinBounds(st3.db)
            /\ inflight' = (inflight \ {w}) \cup {w2}
            /\ last' = IF w2.pc = "done" THEN Finished(w2) ELSE last
            /\ UNCHANGED <<db, extracted, steps>>

\* conn.commit()
RaceCommit ==
    \E w \in inflight :
        LET w2 == [w EXCEPT !.pc = "done", !.tx = FALSE, !.st = NoTx]
        IN  /\ w.pc = "commit"
            /\ db' = w.st.db
            /\ inflight' = (inflight \ {w}) \cup {w2}
            /\ last' = [Finished(w2) EXCEPT !.pre = db]
            /\ UNCHANGED <<extracted, steps>>

\* A write that finds the lock taken until the busy timeout expires:
\* sqlite3.OperationalError.
RaceBusy ==
    \E w \in inflight :
        LET w2 == [w EXCEPT !.pc = "done", !.err = "database is locked"]
        IN  /\ w.pc \in {"items", "upsert"}
            /\ ~w.tx
            /\ ~LockFreeFor(w)
            /\ inflight' = (inflight \ {w}) \cup {w2}
            /\ last' = Finished(w2)
            /\ UNCHANGED <<db, extracted, steps>>

NextRace ==
    \/ RaceBegin
    \/ RaceItems
    \/ RaceLookup
    \/ RaceUpsert
    \/ RaceCommit
    \/ RaceBusy

\* Up to MaxWorkers extractions whose statements interleave.
SpecRace == Init /\ [][NextRace]_vars


\* ------------------------------------------------ the action-cue pass
\* The first loop of _rule_based_extract, one candidate at a time.  The
\* title is "Memo"; the content is up to MaxLines of these lines, and a line
\* carries the matches the action patterns find in it (pattern number in
\* _ACTION_PATTERNS, group(1)):
\*   L1  "send it"              11 "send it"
\*   L2  "must send it"          4 "must send it", 11 "send it"
\*   L3  "review and Send it!"  11 "Send it!", 12 "review and Send it!"
\*   L4  "todo: go"              5 "go"
\*   L5  "call Sam. Send it"    11 "Send it", 13 "call Sam"
\*   L6  "should call Sam"       2 "should call Sam", 13 "call Sam"
\* No match spans two lines, so the matches of a text are those of its lines.
CUE_LINES == {"L1", "L2", "L3", "L4", "L5", "L6"}

LineCues(line) ==
    CASE line = "L1" -> <<[pattern |-> 11, group |-> SendIt]>>
      [] line = "L2" -> <<[pattern |-> 4, group |-> MustSendIt],
                          [pattern |-> 11, group |-> SendIt]>>
      [] line = "L3" -> <<[pattern |-> 11, group |-> <<"S", "e", "n", "d", " ", "i", "t", "!">>],
                          [pattern |-> 12,
                           group |-> <<"r", "e", "v", "i", "e", "w", " ", "a", "n", "d", " ", "S", "e", "n", "d", " ", "i", "t", "!">>]>>
      [] line = "L4" -> <<[pattern |-> 5, group |-> <<"g", "o">>]>>
      [] line = "L5" -> <<[pattern |-> 11, group |-> <<"S", "e", "n", "d", " ", "i", "t">>],
                          [pattern |-> 13, group |-> CallSam]>>
      [] line = "L6" -> <<[pattern |-> 2,
                           group |-> <<"s", "h", "o", "u", "l", "d", " ", "c", "a", "l", "l", " ", "S", "a", "m">>],
                          [pattern |-> 13, group |-> CallSam]>>

\* for pattern in _ACTION_PATTERNS: for m in re.finditer(pattern, text):
\* the 13 patterns in order, and under each the matches in text order.
CueCandidates(lines) ==
    LET RECURSIVE OfLines(_)
        OfLines(ls) ==
            IF ls = <<>> THEN <<>> ELSE LineCues(Head(ls)) \o OfLines(Tail(ls))
        RECURSIVE FromPattern(_, _)
        FromPattern(cues, p) ==
            IF p > 13 THEN <<>>
            ELSE LET found == SelectSeq(cues, LAMBDA c : c.pattern = p)
                 IN  [i \in DOMAIN found |-> found[i].group]
                     \o FromPattern(cues, p + 1)
    IN  FromPattern(OfLines(lines), 1)

CUE_TEXTS == UNION {[1..n -> CUE_LINES] : n \in 1..MaxLines}

\* data = {...}; seen_actions = set(), and the matches still to visit.
CueBegin ==
    \E lines \in CUE_TEXTS :
        /\ Step
        /\ inflight = {}
        /\ inflight' = {[lines |-> lines, todo |-> CueCandidates(lines),
                         acc |-> [seen |-> {}, items |-> <<>>]]}
        /\ UNCHANGED <<db, extracted, last>>

\* One iteration of the inner loop.
CueCandidate ==
    \E w \in inflight :
        /\ w.todo # <<>>
        /\ inflight' = {[w EXCEPT !.todo = Tail(@),
                                  !.acc = AcceptAction(@, Head(w.todo))]}
        /\ UNCHANGED <<db, extracted, last, steps>>

\* The loops are over: data["action_items"] is what the pass accepted.
CueEnd ==
    \E w \in inflight :
        /\ w.todo = <<>>
        /\ inflight' = {}
        /\ last' = [Request("action_pass", 0, db, NoRows) EXCEPT
                       !.data = [kind |-> "dict", action_items |-> w.acc.items]]
        /\ UNCHANGED <<db, extracted, steps>>

NextCues ==
    \/ CueBegin
    \/ CueCandidate
    \/ CueEnd

\* The action-cue pass of the Pattern Extractor on texts of up to MaxLines lines.
SpecCues == Init /\ [][NextCues]_vars


\* ------------------------------------------------------------------ claims
IsExtractionOf(ops) == last.op \in ops /\ last.data # NoData
NotesWriting == {"create_note", "update_note"}

\* The names listed in an extraction result's contacts.
ListedNames(data) ==
    IF IsDict(data)
    THEN {c.name : c \in {x \in SeqRange(Get(data, "contacts", <<>>)) : "name" \in DOMAIN x}}
    ELSE {}

ContactsNamed(d, name) == {c \in d.contacts : c.name = name}

\* C1: in every state reached by create_note, update_note, delete_note and
\* delete_contact (and the action requests), no two Contact rows have the
\* same name, and the writer never attempts the insert of a name that is
\* present: the UNIQUE constraint on contacts.name is never the reason a
\* batch fails.
C1_ContactNamesUnique ==
    /\ \A c1, c2 \in db.contacts : c1.name = c2.name => c1 = c2
    /\ last.err # "UNIQUE constraint failed"

\* C1 witness: a result that lists Sam twice was persisted for a store that
\* already held a contact Sam, and the store holds Sam once, under the old id.
C1_Witness ==
    /\ IsExtractionOf(NotesWriting)
    /\ last.data = PRepeat
    /\ last.err = ""
    /\ ContactsNamed(last.pre, Sam) # {}
    /\ {c.id : c \in ContactsNamed(db, Sam)} = {c.id : c \in ContactsNamed(last.pre, Sam)}

ItemsOfNote(d, note_id) == {a \in d.action_items : a.note_id = note_id}

\* C2: after update_note(n, title', content') returns normally, the
\* ActionItems of n are exactly one fresh, pending row per extracted item,
\* in the order extracted; no row that n owned before is left.
C2_UpdateReplacesItems ==
    (last.op = "update_note" /\ last.data # NoData /\ last.err = "") =>
        LET items == Get(last.data, "action_items", <<>>)
            base == last.pre.seq.action_items
        IN  /\ ItemsOfNote(db, last.id) =
                 {[id |-> base + i, note_id |-> last.id,
                   description |-> items[i].description,
                   is_completed |-> FALSE] : i \in DOMAIN items}
            /\ Ids(ItemsOfNote(db, last.id)) \cap Ids(last.pre.action_items) = {}

\* C2 witness: an update replaced a completed item of the note by new items.
C2_Witness ==
    /\ last.op = "update_note" /\ last.data # NoData /\ last.err = ""
    /\ \E a \in ItemsOfNote(last.pre, last.id) : a.is_completed
    /\ ItemsOfNote(db, last.id) # {}

LinkedContacts(d, note_id) == {l[2] : l \in {k \in d.note_contacts : k[1] = note_id}}
LinkedElsewhere(d, note_id) == {l[2] : l \in {k \in d.note_contacts : k[1] # note_id}}

\* C4: delete_note(n) removes n, its ActionItems and its links; it deletes
\* exactly the contacts that were linked to n and to no other note, with
\* their Reminders; every other contact, reminder, link, note and action
\* item is as before.
C4_DeleteNoteEffect ==
    last.op = "delete_note" =>
        LET n == last.id
            pre == last.pre
            gone == LinkedContacts(pre, n) \ LinkedElsewhere(pre, n)
        IN  /\ db.notes = {x \in pre.notes : x.id # n}
            /\ db.action_items = {a \in pre.action_items : a.note_id # n}
            /\ db.note_contacts = {l \in pre.note_contacts : l[1] # n}
            /\ db.contacts = {c \in pre.contacts : c.id \notin gone}
            /\ db.reminders = {r \in pre.reminders : r.contact_id \notin gone}

\* C4 witness: a delete removed one contact with a reminder and kept
\* another, linked to the deleted note and to a second note, with its
\* reminder.
C4_Witness ==
    /\ last.op = "delete_note"
    /\ \E c \in last.pre.contacts :
         /\ c \notin db.contacts
         /\ \E r \in last.pre.reminders : r.contact_id = c.id
    /\ \E c \in db.contacts :
         /\ c.id \in LinkedContacts(last.pre, last.id)
         /\ \E r \in db.reminders : r.contact_id = c.id


\* C3: after update_note(n), nothing that the previous extraction of n
\* produced is left: none of its ActionItems and none of its Reminders
\* (also when the reminder's contact is linked to another note).
C3_NoSupersededRowSurvives ==
    (last.op = "update_note" /\ last.data # NoData) =>
        /\ Ids(db.action_items) \cap last.old.actions = {}
        /\ Ids(db.reminders) \cap last.old.reminders = {}

\* C5: every Contact that has a Reminder is linked to at least one Note.
C5_RemindedContactsAreLinked ==
    \A r \in db.reminders : \E l \in db.note_contacts : l[2] = r.contact_id

\* C7: extract_from_note returns normally, whatever the model answered and
\* whatever happened while the result was persisted.
C7_ExtractionNeverRaises ==
    last.err = ""


\* C6: every ActionItem references a Note that exists, every Reminder a
\* Contact that exists, every note-contact link a Note and a Contact that
\* exist, also when update_note names no note and when the extraction of a
\* note is persisted after the note was deleted.
C6_ReferentialIntegrity ==
    /\ \A a \in db.action_items : \E n \in db.notes : n.id = a.note_id
    /\ \A r \in db.reminders : \E c \in db.contacts : c.id = r.contact_id
    /\ \A l \in db.note_contacts :
         /\ \E n \in db.notes : n.id = l[1]
         /\ \E c \in db.contacts : c.id = l[2]

\* C6 witness: the extraction of a note that was created, then deleted by
\* another request, tried to persist rows for it.
C6_Witness ==
    /\ last.op = "extract_from_note"
    /\ last.id <= last.pre.seq.notes
    /\ \A n \in last.pre.notes : n.id # last.id
    /\ last.err = "FOREIGN KEY constraint failed"

\* The first non-empty value a result offers for a field of the contact
\* called name ("" when it offers none).
FirstOffer(data, name, field) ==
    LET offers == SelectSeq(Get(data, "contacts", <<>>),
                            LAMBDA c : c.name = name /\ Get(c, field, "") # "")
    IN  IF offers = <<>> THEN "" ELSE offers[1][field]

\* The rows a successful batch adds for its action items and reminders.
ExpectedItems(pre, note_id, data) ==
    LET items == Get(data, "action_items", <<>>)
    IN  {[id |-> pre.seq.action_items + i, note_id |-> note_id,
          description |-> items[i].description, is_completed |-> FALSE] :
            i \in DOMAIN items}

ExpectedReminders(pre, after, data) ==
    LET known == ListedNames(data) \cup {c.name : c \in pre.contacts}
        rs == SelectSeq(Get(data, "reminders", <<>>),
                        LAMBDA r : Get(r, "contact_name", NoStr) \in known)
    IN  {[id |-> pre.seq.reminders + i,
          contact_id |-> (CHOOSE c \in after.contacts : c.name = rs[i].contact_name).id,
          reminder_type |-> Get(rs[i], "type", "follow_up"),
          message |-> Get(rs[i], "message", NoStr)] : i \in DOMAIN rs}

\* C8: _save_extractions is all-or-nothing. When a statement fails the store
\* is the store before the call; when none fails the store holds one action
\* item per extracted item, a row and a link to the note for every listed
\* contact, and one reminder per reminder whose contact resolves.
C8_AllOrNothing ==
    last.op = "extract_from_note" =>
        /\ last.err # "" => db = last.pre
        /\ last.err = "" =>
             /\ db.action_items =
                  last.pre.action_items \cup ExpectedItems(last.pre, last.id, last.data)
             /\ \A name \in ListedNames(last.data) :
                  \E c \in db.contacts :
                      /\ c.name = name /\ <<last.id, c.id>> \in db.note_contacts
                      /\ \A f \in {"phone", "email"} :
                           \/ c[f] = FirstOffer(last.data, name, f)
                           \/ \E o \in last.pre.contacts : o.name = name /\ o[f] # "" /\ c[f] = o[f]
             /\ db.reminders =
                  last.pre.reminders \cup ExpectedReminders(last.pre, db, last.data)
             /\ db.notes = last.pre.notes

\* C8 witness: a batch whose reminder has a type that is neither call nor
\* follow_up failed after its action item and contact, and left nothing.
C8_Witness ==
    /\ last.op = "extract_from_note"
    /\ last.data = PBadType
    /\ last.err = "CHECK constraint failed"
    /\ \E n \in last.pre.notes : n.id = last.id
    /\ db = last.pre

\* How the call to the model went, read off the outcome itself.
ResponsesOf(v) == {<<Json(v)>>, <<Fence, Nl, Json(v), Nl, Fence>>}
Answered(ai, v) == ai.key /\ ~ai.raises /\ ai.raw \in ResponsesOf(v)
AiSucceeded(ai) == \E v \in PAYLOADS : Answered(ai, v)
RuleResults(text) == {_rule_based_extract(text, o) : o \in NameOrders(text)}

\* C9 as claimed: without a credential, or when the call or the parsing of
\* its response fails, the writer gets the Pattern Extractor's result; when
\* the call succeeds and its response parses, the Pattern Extractor is not used.
C9_FallbackOnlyOnFailure ==
    last.op = "extract_from_note" =>
        /\ ~AiSucceeded(last.ai) =>
             last.fallback /\ last.data \in RuleResults(last.text)
        /\ AiSucceeded(last.ai) => ~last.fallback

\* C9: the writer is handed the Pattern Extractor's result when there is no
\* credential, when the call or the parsing fails, and when the response
\* parses to null; otherwise it is handed the parsed response and the
\* Pattern Extractor is not used.
C9_FallbackOnFailureOrNull ==
    last.op = "extract_from_note" =>
        /\ (~AiSucceeded(last.ai) \/ Answered(last.ai, PNull)) =>
             last.fallback /\ last.data \in RuleResults(last.text)
        /\ \A v \in PAYLOADS \ {PNull} :
             Answered(last.ai, v) => ~last.fallback /\ last.data = v

\* C9 witness: the model answered null and the writer persisted the Pattern
\* Extractor's result for a text that has one.
C9_Witness ==
    /\ last.op = "extract_from_note"
    /\ Answered(last.ai, PNull)
    /\ last.fallback
    /\ last.err = ""
    /\ db.reminders # last.pre.reminders

\* C10: a batch that succeeds leaves every contact that was in the store
\* under its id and name, keeps each phone and email that was not empty, and
\* sets one that was empty to the value the result offers for that name.
C10_UpsertFillsEmptyOnly ==
    (last.op = "extract_from_note" /\ last.err = "") =>
        \A c \in last.pre.contacts :
            \E c2 \in db.contacts :
                /\ c2.id = c.id /\ c2.name = c.name
                /\ c2.phone = IF c.phone # "" THEN c.phone
                              ELSE FirstOffer(last.data, c.name, "phone")
                /\ c2.email = IF c.email # "" THEN c.email
                              ELSE FirstOffer(last.data, c.name, "email")

\* C10 witness: a contact with a phone and no email was offered another
\* phone and an email; it kept the phone and took the email.
C10_Witness ==
    /\ last.op = "extract_from_note" /\ last.err = ""
    /\ \E c \in last.pre.contacts :
         /\ c.phone # "" /\ c.email = ""
         /\ FirstOffer(last.data, c.name, "phone") \notin {"", c.phone}
         /\ \E c2 \in db.contacts : c2.id = c.id /\ c2.phone = c.phone /\ c2.email # ""


\* The descriptions the action patterns propose for a text, stripped as the
\* loop strips them, without those it discards as too short.
Candidates(text) ==
    {d \in {RStripPunct(c) : c \in SeqRange(Matches(text).actions)} : Len(d) > 3}

Descriptions(data) == {a.description : a \in SeqRange(Get(data, "action_items", <<>>))}

\* C11: of two candidate descriptions of the Pattern Extractor where one is a
\* case-insensitive substring of the other, only the longer one is among
\* the action items of its result, whichever was matched first.
C11_LongerDescriptionKept ==
    (IsExtractionOf(NotesWriting) /\ last.fallback) =>
        \A a, b \in Candidates(last.text) :
            (a # b /\ IsSubstring(Lower(a), Lower(b))) =>
                a \notin Descriptions(last.data) /\ b \in Descriptions(last.data)


\* C12: ocr_image calls the extraction service only for an upload of an
\* allowed image type and of at most the maximum size; an unsupported type
\* gets 422 with "Unsupported file type", an oversize image of an allowed
\* type gets 422 with the size-limit message, both without a call.
C12_ValidationPrecedesExtraction ==
    last.op = "ocr_image" =>
        LET typed == last.upload.content_type \in
                        {"image/jpeg", "image/png", "image/gif", "image/webp"}
            sized == last.upload.size <= 5242880
        IN  /\ last.calls = 1 => typed /\ sized
            /\ last.calls \in {0, 1}
            /\ ~typed => /\ last.status = 422 /\ last.calls = 0
                         /\ IsSubstring(<<"Unsupported", "file", "type">>, last.body)
            /\ (typed /\ ~sized) =>
                         /\ last.status = 422 /\ last.calls = 0
                         /\ IsSubstring(<<"Image", "too", "large">>, last.body)
                         /\ IsSubstring(<<"Maximum", "size", "is", "5", "MB">>, last.body)

\* C12 witness: an image of an allowed type, one byte over the maximum, sent
\* while the service is configured and working, was refused.
C12_Witness ==
    /\ last.op = "ocr_image"
    /\ last.upload = [content_type |-> "image/png", size |-> 5242881]
    /\ last.ai = [key |-> TRUE, raises |-> FALSE]
    /\ last.status = 422 /\ last.calls = 0

\* C13: without a credential, an upload of an allowed type and size gets
\* status 422 and a body that names OPENAI_API_KEY.
C13_MissingCredentialNamed ==
    (/\ last.op = "ocr_image"
     /\ ~last.ai.key
     /\ last.upload.content_type \in {"image/jpeg", "image/png", "image/gif", "image/webp"}
     /\ last.upload.size <= 5242880) =>
        /\ last.status = 422
        /\ \E i \in DOMAIN last.body : last.body[i] = "OPENAI_API_KEY"


\* Whether the row a request names by its identifier was in the store.
NamedRowExisted ==
    CASE last.op \in {"detail_note", "edit_note", "update_note", "delete_note"} ->
           \E n \in last.pre.notes : n.id = last.id
      [] last.op \in {"contact_detail", "delete_contact"} ->
           \E c \in last.pre.contacts : c.id = last.id
      [] last.op \in {"toggle_action", "delete_action"} ->
           \E a \in last.pre.action_items : a.id = last.id
      [] OTHER -> TRUE

\* C14: every operation addressed by identifier (note detail, note edit
\* form, update_note, delete_note, contact detail, delete_contact,
\* toggle_action, delete_action) answers 404 when no row has the identifier.
C14_MissingRowGives404 == ~NamedRowExisted => last.status = 404


\* C15: after DELETE /actions no ActionItem remains in the store, whatever
\* the completion flags were.
C15_NoActionItemRemains ==
    last.op = "delete_completed_actions" => db.action_items = {}

RaceOverBothMissed ==
    /\ Cardinality(inflight) = 2
    /\ \A w \in inflight : w.pc = "done" /\ w.found = 0 /\ w.err # "database is locked"

\* C17 as claimed: two extractions that name the same new contact and whose
\* lookups both precede the inserts leave two Contact rows with that name.
C17_RaceDuplicatesContact ==
    RaceOverBothMissed => Cardinality(ContactsNamed(db, Sam)) = 2

\* C17: two extractions that name the same new contact and run side by side
\* never leave two Contact rows with that name, in the store or in an open
\* transaction; when both lookups missed, the insert of one fails on the
\* UNIQUE constraint, its batch is rolled back, and the one row is linked to
\* the note of the other.
C17_RaceKeepsNamesUnique ==
    /\ Cardinality(ContactsNamed(db, Sam)) <= 1
    /\ \A w \in inflight : w.tx => Cardinality(ContactsNamed(w.st.db, Sam)) <= 1
    /\ RaceOverBothMissed =>
         \E won, lost \in inflight :
             /\ won.err = "" /\ lost.err = "UNIQUE constraint failed"
             /\ Cardinality(ContactsNamed(db, Sam)) = 1
             /\ \A c \in ContactsNamed(db, Sam) :
                    /\ <<won.note_id, c.id>> \in db.note_contacts
                    /\ <<lost.note_id, c.id>> \notin db.note_contacts
             /\ \A a \in db.action_items : a.note_id # lost.note_id

\* C17 witness: both lookups missed, one insert was committed and the other
\* failed on the UNIQUE constraint.
C17_Witness ==
    /\ RaceOverBothMissed
    /\ \E w \in inflight : w.err = "UNIQUE constraint failed" /\ w.data = PJustSam
    /\ Cardinality(ContactsNamed(db, Sam)) = 1


\* The contacts of the store before the request that were linked to the
\* note it names, and those of them no other note was linked to.
WasLinked == {l[2] : l \in {k \in last.pre.note_contacts : k[1] = last.id}}
WasLinkedOnlyHere ==
    {c \in WasLinked : \A k \in last.pre.note_contacts : k[2] = c => k[1] = last.id}

\* C18: update_note deletes no Contact row, and its cleanup (seen where the
\* re-extraction has not run or has been rolled back) deletes the Reminders
\* of exactly the contacts that were linked to the note and to no other,
\* removes every link of the note and no other link.
C18_UpdateCleanup ==
    last.op = "update_note" =>
        /\ \A c \in last.pre.contacts : \E c2 \in db.contacts : c2.id = c.id
        /\ (last.err # "" \/ last.status = 0) =>
             /\ db.contacts = last.pre.contacts
             /\ db.reminders = {r \in last.pre.reminders : r.contact_id \notin WasLinkedOnlyHere}
             /\ db.note_contacts = {l \in last.pre.note_contacts : l[1] # last.id}

\* C18 witness: the note was linked to a contact of its own and to one it
\* shared, both with reminders; the first lost them, the second kept them.
C18_Witness ==
    /\ last.op = "update_note" /\ last.err # ""
    /\ \E c \in WasLinkedOnlyHere :
         /\ \E r \in last.pre.reminders : r.contact_id = c
         /\ \A r \in db.reminders : r.contact_id # c
    /\ \E c \in WasLinked \ WasLinkedOnlyHere :
         \E r \in db.reminders : r.contact_id = c

\* The reminders of a result whose contact_name is listed in the result or
\* names a contact of the store.
Resolvable(pre, data) ==
    SelectSeq(Get(data, "reminders", <<>>),
              LAMBDA r : Get(r, "contact_name", NoStr) \in
                            ListedNames(data) \cup {c.name : c \in pre.contacts})

\* Nothing but its reminders' contact names could make the batch fail.
RestIsSound(pre, note_id, data) ==
    /\ IsDict(data)
    /\ \A a \in SeqRange(Get(data, "action_items", <<>>)) : "description" \in DOMAIN a
    /\ \A c \in SeqRange(Get(data, "contacts", <<>>)) : "name" \in DOMAIN c
    /\ \/ \E n \in pre.notes : n.id = note_id
       \/ Get(data, "action_items", <<>>) = <<>> /\ Get(data, "contacts", <<>>) = <<>>
    /\ \A r \in SeqRange(Resolvable(pre, data)) :
           Get(r, "type", "follow_up") \in {"call", "follow_up"}

\* C19: _save_extractions inserts one Reminder row for each extracted
\* reminder whose contact_name names a contact of the call's contacts list or
\* of the store, attached to that contact, with type follow_up when none is
\* given; a reminder naming no contact gets no row and raises nothing, and
\* the rest of the batch is persisted.
C19_RemindersResolved ==
    last.op = "extract_from_note" =>
        /\ RestIsSound(last.pre, last.id, last.data) => last.err = ""
        /\ last.err = "" =>
             LET rs == Resolvable(last.pre, last.data)
                 new == {r \in db.reminders : r.id > last.pre.seq.reminders}
             IN  /\ new \cup last.pre.reminders = db.reminders
                 /\ Cardinality(new) = Len(rs)
                 /\ \A i \in DOMAIN rs :
                      \E r \in new, c \in db.contacts :
                          /\ r.id = last.pre.seq.reminders + i
                          /\ c.name = rs[i].contact_name /\ r.contact_id = c.id
                          /\ r.reminder_type = (IF "type" \in DOMAIN rs[i]
                                                THEN rs[i].type ELSE "follow_up")
                          /\ r.message = Get(rs[i], "message", NoStr)
                 /\ \A name \in ListedNames(last.data) :
                      \E c \in db.contacts :
                          c.name = name /\ <<last.id, c.id>> \in db.note_contacts

\* C19 witness: of two reminders one named a listed contact and gave no
\* type, the other named nobody in the result or the store; one row of type
\* follow_up was inserted and the batch was committed.
C19_Witness ==
    /\ last.op = "extract_from_note" /\ last.err = ""
    /\ last.data = PNoType
    /\ \A c \in last.pre.contacts : c.name # Sam
    /\ \E r \in db.reminders :
         /\ r.id > last.pre.seq.reminders /\ r.reminder_type = "follow_up"
         /\ \A o \in db.reminders : o.id > last.pre.seq.reminders => o = r
    /\ \E c \in db.contacts : c.name = Jo /\ <<last.id, c.id>> \in db.note_contacts

\* C20: when persisting the extraction fails, create_note leaves the new note
\* row and update_note the new text and its cleanup committed, with no
\* derived row of the note: no action item, no link, none of the rows the
\* previous extraction of the note had produced for it.
C20_NoteWriteSurvivesFailure ==
    (last.op \in {"create_note", "update_note"} /\ last.err # "") =>
        /\ last.status = 500
        /\ last.op = "create_note" =>
             /\ db.notes = last.pre.notes \cup {[id |-> last.id, text |-> last.text]}
             /\ last.id \notin {n.id : n \in last.pre.notes}
        /\ last.op = "update_note" =>
             /\ \A n \in db.notes : n.id = last.id => n.text = last.text
             /\ {n.id : n \in db.notes} = {n.id : n \in last.pre.notes}
             /\ \A a \in db.action_items : a.id \notin last.old.actions
        /\ \A a \in db.action_items : a.note_id # last.id
        /\ \A l \in db.note_contacts : l[1] # last.id
        /\ db.contacts = last.pre.contacts
        /\ db.reminders \subseteq last.pre.reminders

\* C20 witness: an update of a note that had action items, a link and a
\* text of its own failed while persisting; the new text is stored and the
\* old rows are gone.
C20_Witness ==
    /\ last.op = "update_note" /\ last.err # ""
    /\ \E n \in last.pre.notes : n.id = last.id /\ n.text # last.text
    /\ \E n \in db.notes : n.id = last.id /\ n.text = last.text
    /\ last.old.actions # {} /\ last.old.links # {}
    /\ \A a \in db.action_items : a.id \notin last.old.actions


\* C21: during and after the action-cue pass the accepted descriptions form
\* an antichain under case-insensitive substring containment (none equals or
\* is part of another), each is longer than 3 characters, and every
\* candidate is accepted or rejected by comparison with the descriptions
\* accepted before it alone: a step appends the stripped candidate when it is
\* longer than 3 characters and neither contains nor is contained in an
\* accepted description, and changes nothing otherwise.
C21_AcceptedAntichain ==
    /\ [](\A w \in inflight :
             /\ \A i \in DOMAIN w.acc.items : Len(w.acc.items[i].description) > 3
             /\ \A i, j \in DOMAIN w.acc.items :
                    i # j => ~IsSubstring(Lower(w.acc.items[i].description),
                                          Lower(w.acc.items[j].description)))
    /\ [][\A w \in inflight, w2 \in inflight' :
             (w.todo # <<>> /\ w2.lines = w.lines /\ w2.todo = Tail(w.todo)) =>
                 LET c == RStripPunct(Head(w.todo))
                     before == {Lower(w.acc.items[i].description) : i \in DOMAIN w.acc.items}
                     taken == /\ Len(c) > 3
                              /\ \A d \in before : /\ ~IsSubstring(Lower(c), d)
                                                   /\ ~IsSubstring(d, Lower(c))
                 IN  w2.acc.items = IF taken
                                    THEN Append(w.acc.items, [description |-> c])
                                    ELSE w.acc.items]_vars

\* C21 witness: a pass that has visited all its candidates accepted two
\* descriptions and rejected two that compare with them.
C21_Witness ==
    \E w \in inflight :
        /\ w.todo = <<>>
        /\ Len(w.acc.items) = 2
        /\ Len(CueCandidates(w.lines)) = 4
        /\ \A i \in DOMAIN CueCandidates(w.lines) :
               Len(RStripPunct(CueCandidates(w.lines)[i])) > 3

=============================================================================
